---------------------------- MODULE Spec2Model ----------------------------
(***************************************************************************)
(* Model of the rectangle packer of dusk125/rectpack.                      *)
(*                                                                         *)
(* The sources hold two revisions of the Packer:                           *)
(*   - the "flags" revision, NewPacker(width, height, flags), with the     *)
(*     AllowGrowth create flag (src/pack_test.go lines 139-367); split.go  *)
(*     (src/unnamed/part_000) and the pixelpack adapter belong to it;      *)
(*   - the "cfg" revision, NewPacker(PackerCfg), with the packed flag and  *)
(*     the NotPacked / AlreadyPacked / NotFoundNoDefault signals           *)
(*     (src/pack_test.go lines 369-654); the test belongs to it.           *)
(* find, remove, grow, insert and split are the same in both.  The         *)
(* variable rev says which revision the instance is.                       *)
(*                                                                         *)
(* A Rectangle is image.Rectangle: [MinX, MinY, MaxX, MaxY].  A queued     *)
(* picture is an *image.RGBA with bounds (0,0)-(w,h) whose pixels are all  *)
(* different: [w, h, tag].  The canvas keeps one Pix entry per pixel (four *)
(* channels), so offsets are the code's byte offsets divided by four.      *)
(* sort.Slice is an insertion sort (stable) for the slice lengths reached  *)
(* here (fewer than seven elements).                                       *)
(***************************************************************************)
EXTENDS Integers, Sequences, FiniteSets, TLC

VARIABLES rev, flags, bounds, emptySpaces, queued, rects, images, pic,
          nfId, packed, pc, i, err, calls, packs,
          splitImg, splitSpace, splitRet

\* A direct call of split: its arguments and what it returned.
splitVars == <<splitImg, splitSpace, splitRet>>

vars == <<rev, flags, bounds, emptySpaces, queued, rects, images, pic,
          nfId, packed, pc, i, err, calls, packs, splitVars>>

\* ------------------------------------------------------------- bounds
MaxDim == 2
MaxId == 1
MaxInit == 1
\* Spec: Insert calls and Pack calls, in any order.
MaxItems == 2
MaxPacks == 2
\* SpecBatch: Insert calls before the one Pack call.
MaxBatch == 3
\* SpecTall: Insert calls before the one Pack call.
MaxTall == 4
\* SpecSplit: origins and sides of the arguments of a direct call of split.
MaxOrigin == 1
\* SpecDup: the ids 0..MaxDupId, fewer than the MaxBatch Insert calls.
MaxDupId == 1
MaxSide == 3

Dims == 0..MaxDim
Ids == (0 - 1)..MaxId
InitSizes == 0..MaxInit
Exts == {".png", ".jpg", ".txt"}
\* Sizes <<w, h>> of the pictures of SpecTall: all of positive area.
TallShapes == {<<1, 5>>, <<2, 4>>, <<2, 5>>, <<3, 3>>}

\* ---------------------------------------------------------- constants
AllowGrowth == 1
NoDefault == 0 - 1

\* ----------------------------------------------------------- geometry
Min2(a, b) == IF a < b THEN a ELSE b
Max2(a, b) == IF a < b THEN b ELSE a

\* image.Rect: the corners are put in order.
ImageRect(x0, y0, x1, y1) ==
    [MinX |-> Min2(x0, x1), MinY |-> Min2(y0, y1),
     MaxX |-> Max2(x0, x1), MaxY |-> Max2(y0, y1)]

ZR == [MinX |-> 0, MinY |-> 0, MaxX |-> 0, MaxY |-> 0]

Dx(r) == r.MaxX - r.MinX
Dy(r) == r.MaxY - r.MinY

rect(x, y, w, h) == ImageRect(x, y, x + w, y + h)

area(r) == Dx(r) * Dy(r)

\* pic.Bounds() of a queued picture.
Bounds(p) == ImageRect(0, 0, p.w, p.h)

\* ---------------------------------------------------------------- split
\* A faulty splits: a single rectangle is flagged as the bigger one too.
splits1_Both(r) ==
    [err |-> "nil", count |-> 1, hasSmall |-> TRUE, hasBig |-> TRUE,
     smaller |-> r, bigger |-> r]

splits1(r) ==
    [err |-> "nil", count |-> 1, hasSmall |-> TRUE, hasBig |-> FALSE,
     smaller |-> r, bigger |-> ZR]

\* A faulty splits: the two rectangles are stored the other way round.
splits2_Swapped(r1, r2) ==
    [err |-> "nil", count |-> 2, hasSmall |-> TRUE, hasBig |-> TRUE,
     smaller |-> r2, bigger |-> r1]

splits2(r1, r2) ==
    [err |-> "nil", count |-> 2, hasSmall |-> TRUE, hasBig |-> TRUE,
     smaller |-> r1, bigger |-> r2]

noSplits(e) ==
    [err |-> e, count |-> 0, hasSmall |-> FALSE, hasBig |-> FALSE,
     smaller |-> ZR, bigger |-> ZR]

\* A faulty split: in the general case the second leftover starts at the
\* origin of the space, under the picture.
split_Overlap(img, space) ==
    LET w == Dx(space) - Dx(img)
        h == Dy(space) - Dy(img)
    IN  IF w < 0 \/ h < 0 THEN noSplits("SplitFailed")
        ELSE IF w = 0 /\ h = 0 THEN noSplits("nil")
        ELSE IF w > 0 /\ h = 0
             THEN splits1(rect(space.MinX + Dx(img), space.MinY, w, Dy(img)))
        ELSE IF w = 0 /\ h > 0
             THEN splits1(rect(space.MinX, space.MinY + Dy(img), Dx(img), h))
        ELSE IF w > h
             THEN splits2(rect(space.MinX, space.MinY + Dy(img), Dx(img), h),
                          rect(space.MinX, space.MinY, w, Dy(space)))
        ELSE splits2(rect(space.MinX + Dx(img), space.MinY, w, Dy(img)),
                     rect(space.MinX, space.MinY, Dx(space), h))

split(img, space) ==
    LET w == Dx(space) - Dx(img)
        h == Dy(space) - Dy(img)
    IN  IF w < 0 \/ h < 0 THEN noSplits("SplitFailed")
        ELSE IF w = 0 /\ h = 0 THEN noSplits("nil")
        ELSE IF w > 0 /\ h = 0
             THEN splits1(rect(space.MinX + Dx(img), space.MinY, w, Dy(img)))
        ELSE IF w = 0 /\ h > 0
             THEN splits1(rect(space.MinX, space.MinY + Dy(img), Dx(img), h))
        ELSE IF w > h
             THEN splits2(rect(space.MinX, space.MinY + Dy(img), Dx(img), h),
                          rect(space.MinX + Dx(img), space.MinY, w, Dy(space)))
        ELSE splits2(rect(space.MinX + Dx(img), space.MinY, w, Dy(img)),
                     rect(space.MinX, space.MinY + Dy(img), Dx(space), h))

\* ------------------------------------------------------------- sorting
\* sort.Slice on a short slice: insertion sort; x goes after every element
\* that is not greater than it (less(x, s[k]) is false), so ties keep order.
RECURSIVE InsertAsc(_, _)
InsertAsc(s, x) ==
    IF s = <<>> THEN <<x>>
    ELSE IF area(x) < area(s[Len(s)])
         THEN Append(InsertAsc(SubSeq(s, 1, Len(s) - 1), x), s[Len(s)])
         ELSE Append(s, x)

\* A faulty sort of the pool: the leftovers stay where they were appended.
SortSpaces_Appended(s) == s

RECURSIVE SortSpaces(_)
SortSpaces(s) ==
    IF s = <<>> THEN <<>>
    ELSE InsertAsc(SortSpaces(SubSeq(s, 1, Len(s) - 1)), s[Len(s)])

RECURSIVE InsertDesc(_, _)
InsertDesc(s, x) ==
    IF s = <<>> THEN <<x>>
    ELSE IF area(Bounds(x.pic)) > area(Bounds(s[Len(s)].pic))
         THEN Append(InsertDesc(SubSeq(s, 1, Len(s) - 1), x), s[Len(s)])
         ELSE Append(s, x)

\* A faulty sort of the queue: the pictures stay in the order of Insert.
SortQueued_AsInserted(q) == q

RECURSIVE SortQueued(_)
SortQueued(q) ==
    IF q = <<>> THEN <<>>
    ELSE InsertDesc(SortQueued(SubSeq(q, 1, Len(q) - 1)), q[Len(q)])

\* ------------------------------------------------------ packer helpers
\* The part of the Packer that find, remove, insert and grow work on.
Self == [bounds |-> bounds, emptySpaces |-> emptySpaces, rects |-> rects,
         images |-> images]

\* A faulty fit test: the height is not compared.
Fits_WidthOnly(b, space) == Dx(b) <= Dx(space)

Fits(b, space) == Dx(b) <= Dx(space) /\ Dy(b) <= Dy(space)

\* find: the first space that fits; index is 1-based, 0 when not found.
find(spaces, b) ==
    LET hits == {k \in 1..Len(spaces) : Fits(b, spaces[k])}
    IN  IF hits = {} THEN [index |-> 0, found |-> FALSE]
        ELSE [index |-> CHOOSE k \in hits : \A m \in hits : k <= m,
              found |-> TRUE]

remove(spaces, k) ==
    SubSeq(spaces, 1, k - 1) \o SubSeq(spaces, k + 1, Len(spaces))

Put(f, k, v) == [x \in DOMAIN f \cup {k} |-> IF x = k THEN v ELSE f[x]]

\* A faulty placement: the rectangle takes the size of the free space.
placement_SpaceSize(space, b) ==
    rect(space.MinX, space.MinY, Dx(space), Dy(space))

\* A faulty placement: the origin of the free space is left out.
placement_AtZero(space, b) == rect(0, 0, Dx(b), Dy(b))

\* The rectangle insert records: the origin of the space, the size of the
\* picture.
placement(space, b) == rect(space.MinX, space.MinY, Dx(b), Dy(b))

\* A faulty store: a rectangle without area is not recorded.
store_SkipEmpty(rs, id, r) == IF Dx(r) * Dy(r) = 0 THEN rs ELSE Put(rs, id, r)

\* A faulty store: an id that has a rectangle keeps it.
store_KeepFirst(rs, id, r) == IF id \in DOMAIN rs THEN rs ELSE Put(rs, id, r)

\* pack.rects[data.id] = ...
store(rs, id, r) == Put(rs, id, r)

\* insert: returns the packer after the call and the error.  A write to
\* the nil images map panics after rects has been written.
insert(p, data) ==
    LET b == Bounds(data.pic)
        f == find(p.emptySpaces, b)
    IN  IF ~f.found THEN [p |-> p, err |-> "GrowthFailed"]
        ELSE
        LET space == p.emptySpaces[f.index]
            rest == remove(p.emptySpaces, f.index)
            s == split(b, space)
        IN  IF s.err # "nil"
            THEN [p |-> [p EXCEPT !.emptySpaces = rest], err |-> s.err]
            ELSE
            LET withBig == IF s.hasBig THEN Append(rest, s.bigger) ELSE rest
                withSmall == IF s.hasSmall THEN Append(withBig, s.smaller)
                             ELSE withBig
                r == placement(space, b)
                q == [p EXCEPT !.emptySpaces = SortSpaces(withSmall),
                               !.rects = store(p.rects, data.id, r)]
            IN  IF p.images.isNil
                THEN [p |-> q, err |-> "PanicNilMap"]
                ELSE [p |-> [q EXCEPT !.images.m =
                                 Put(p.images.m, data.id, data.pic)],
                      err |-> "nil"]

\* The replay loop of grow over items k..endex of the queue.
RECURSIVE replay(_, _, _, _)
replay(p, q, k, endex) ==
    IF k > endex THEN [p |-> p, err |-> "nil"]
    ELSE LET r == insert(p, q[k])
         IN  IF r.err # "nil" THEN r ELSE replay(r.p, q, k + 1, endex)

\* A faulty grow: the new size is growBy alone, the old size is not added.
grow_Replace(p, growBy, q, endex) ==
    LET nb == rect(p.bounds.MinX, p.bounds.MinY, growBy.X, growBy.Y)
    IN  replay([p EXCEPT !.bounds = nb, !.emptySpaces = <<nb>>], q, 1, endex)

\* grow: endex is the number of earlier items (the code's index i).
grow(p, growBy, q, endex) ==
    LET nb == rect(p.bounds.MinX, p.bounds.MinY,
                   Dx(p.bounds) + growBy.X, Dy(p.bounds) + growBy.Y)
    IN  replay([p EXCEPT !.bounds = nb, !.emptySpaces = <<nb>>], q, 1, endex)

Size(r) == [X |-> Dx(r), Y |-> Dy(r)]

\* -------------------------------------------------------------- pixels
Blank == [c \in 1..4 |-> <<0, 0, 0>>]

\* pic.At(x, y) of a queued picture: every pixel of every picture differs.
SrcAt(p, x, y) == [c \in 1..4 |-> <<p.tag, x, y>>]

NilPic == [isNil |-> TRUE, Rect |-> ZR, Stride |-> 0, Pix |-> <<>>]

\* image.NewRGBA(r)
NewRGBA(r) ==
    [isNil |-> FALSE, Rect |-> r, Stride |-> Dx(r),
     Pix |-> [k \in 1..(Dx(r) * Dy(r)) |-> Blank]]

In(x, y, r) == r.MinX <= x /\ x < r.MaxX /\ r.MinY <= y /\ y < r.MaxY

\* RGBA.PixOffset, in pixels (0-based).
PixOffset(img, x, y) == (y - img.Rect.MinY) * img.Stride + (x - img.Rect.MinX)

\* The pixel writes of the copy loops of Pack: one per picture pixel.
Writes(m, rs) ==
    UNION {{<<id, x, y>> : x \in 0..(m[id].w - 1), y \in 0..(m[id].h - 1)} :
             id \in DOMAIN m}

Target(canvas, rs, wr) ==
    PixOffset(canvas, wr[2] + rs[wr[1]].MinX, wr[3] + rs[wr[1]].MinY)

\* cfg revision: pack.pic.Set(x+rect.Min.X, y+rect.Min.Y, pic.At(x, y));
\* Set ignores a point outside the canvas.  Placed rectangles never overlap
\* when the loop runs (NoTwoWrites), so the map's iteration order does not
\* show.
ComposeCfg(m, rs, b) ==
    LET canvas == NewRGBA(b)
        hit(k) == {wr \in Writes(m, rs) :
                     /\ In(wr[2] + rs[wr[1]].MinX, wr[3] + rs[wr[1]].MinY, b)
                     /\ Target(canvas, rs, wr) = k - 1}
    IN  [canvas EXCEPT !.Pix =
            [k \in DOMAIN canvas.Pix |->
                IF hit(k) = {} THEN Blank
                ELSE LET wr == CHOOSE wr \in hit(k) : TRUE
                     IN  SrcAt(m[wr[1]], wr[2], wr[3])]]

\* flags revision: pack.pic.Pix[dstI] = pic.Pix[srcI] copies one byte, the
\* first channel of the pixel.
ComposeFlags(m, rs, b) ==
    LET canvas == NewRGBA(b)
        hit(k) == {wr \in Writes(m, rs) : Target(canvas, rs, wr) = k - 1}
    IN  [canvas EXCEPT !.Pix =
            [k \in DOMAIN canvas.Pix |->
                IF hit(k) = {} THEN Blank
                ELSE LET wr == CHOOSE wr \in hit(k) : TRUE
                     IN  [Blank EXCEPT ![1] = SrcAt(m[wr[1]], wr[2], wr[3])[1]]]]

\* A write of the flags revision outside the Pix slice panics.
ComposeFlagsPanics(m, rs, b) ==
    \E wr \in Writes(m, rs) :
        LET t == Target(NewRGBA(b), rs, wr)
        IN  t < 0 \/ t >= Dx(b) * Dy(b)

\* ----------------------------------------------------------------- Init
InitPacker ==
    /\ rev \in {"flags", "cfg"}
    /\ flags \in {0, AllowGrowth}
    /\ \E width \in InitSizes, height \in InitSizes :
          IF rev = "flags"
          THEN /\ bounds = rect(0, 0, width, height)
               /\ emptySpaces = <<rect(0, 0, width, height)>>
               /\ nfId = 0
          ELSE /\ bounds = rect(0, 0, 0, 0)
               /\ emptySpaces = <<>>
               /\ nfId = NoDefault
    /\ queued = <<>>
    /\ rects = <<>>
    /\ images = [isNil |-> FALSE, m |-> <<>>]
    /\ pic = NilPic
    /\ packed = FALSE
    /\ pc = "idle"
    /\ i = 0
    /\ err = "none"
    /\ calls = 0
    /\ packs = 0

\* split has not been called directly.
NoSplitCall ==
    /\ splitImg = ZR
    /\ splitSpace = ZR
    /\ splitRet = noSplits("none")

Init == InitPacker /\ NoSplitCall

\* --------------------------------------------------------------- Insert
Insert(id, w, h) ==
    /\ pc = "idle"
    /\ queued' = Append(queued, [id |-> id, pic |-> [w |-> w, h |-> h, tag |-> calls + 1]])
    /\ calls' = calls + 1
    /\ UNCHANGED <<rev, flags, bounds, emptySpaces, rects, images, pic, nfId,
                   packed, pc, i, err, packs>>
    /\ UNCHANGED splitVars

\* SetDefaultId (cfg revision), SetNotFoundId (flags revision)
SetDefaultId(id) ==
    /\ pc = "idle"
    /\ nfId' = id
    /\ UNCHANGED <<rev, flags, bounds, emptySpaces, queued, rects, images, pic,
                   packed, pc, i, err, calls, packs>>
    /\ UNCHANGED splitVars

\* ----------------------------------------------------------------- Pack
\* A faulty GrowthAllowed: the cfg revision consults its Flags as well.
GrowthAllowed_ByFlag == flags = AllowGrowth

\* Whether Pack grows the canvas when nothing fits: the flags revision
\* tests pack.flags&AllowGrowth, the cfg revision always grows.
GrowthAllowed == rev = "cfg" \/ flags = AllowGrowth

Found == find(emptySpaces, Bounds(queued[i].pic)).found

\* Pack up to the loop: the AlreadyPacked guard and the sort of the queue.
PackStart ==
    /\ pc = "idle"
    /\ packs' = packs + 1
    /\ IF rev = "cfg" /\ packed
       THEN /\ err' = "AlreadyPacked"
            /\ UNCHANGED <<queued, pc, i>>
       ELSE /\ queued' = SortQueued(queued)
            /\ i' = 1
            /\ pc' = "loop"
            /\ err' = "running"
    /\ UNCHANGED <<rev, flags, bounds, emptySpaces, rects, images, pic, nfId,
                   packed, calls>>
    /\ UNCHANGED splitVars

\* The loop body when nothing fits: NoEmptySpace, or grow.
PackGrow ==
    /\ pc = "loop"
    /\ i <= Len(queued)
    /\ ~Found
    /\ IF ~GrowthAllowed
       THEN /\ err' = "NoEmptySpace"
            /\ pc' = "idle"
            /\ UNCHANGED <<bounds, emptySpaces, rects, images>>
       ELSE LET g == grow(Self, Size(Bounds(queued[i].pic)), queued, i - 1)
            IN  /\ bounds' = g.p.bounds
                /\ emptySpaces' = g.p.emptySpaces
                /\ rects' = g.p.rects
                /\ images' = g.p.images
                /\ IF g.err # "nil"
                   THEN err' = g.err /\ pc' = "idle"
                   ELSE err' = err /\ pc' = "insert"
    /\ UNCHANGED <<rev, flags, queued, pic, nfId, packed, i, calls, packs>>
    /\ UNCHANGED splitVars

\* The insert of the loop body, after find succeeded or grow returned.
PackInsert ==
    /\ pc \in {"loop", "insert"}
    /\ i <= Len(queued)
    /\ pc = "loop" => Found
    /\ LET r == insert(Self, queued[i])
       IN  /\ emptySpaces' = r.p.emptySpaces
           /\ rects' = r.p.rects
           /\ images' = r.p.images
           /\ IF r.err # "nil"
              THEN err' = r.err /\ pc' = "idle" /\ i' = i
              ELSE err' = err /\ pc' = "loop" /\ i' = i + 1
    /\ UNCHANGED <<rev, flags, bounds, queued, pic, nfId, packed, calls, packs>>
    /\ UNCHANGED splitVars

\* After the loop: the canvas is composed, the queue, the pool and the
\* images are dropped, the instance is marked packed (cfg revision).
PackCompose ==
    /\ pc = "loop"
    /\ i > Len(queued)
    /\ pc' = "idle"
    /\ IF rev = "flags" /\ ComposeFlagsPanics(images.m, rects, bounds)
       THEN /\ err' = "PanicIndex"
            /\ pic' = NewRGBA(bounds)
            /\ UNCHANGED <<queued, emptySpaces, images, packed>>
       ELSE /\ err' = "nil"
            /\ pic' = IF rev = "cfg" THEN ComposeCfg(images.m, rects, bounds)
                      ELSE ComposeFlags(images.m, rects, bounds)
            /\ queued' = <<>>
            /\ emptySpaces' = <<>>
            /\ images' = [isNil |-> TRUE, m |-> <<>>]
            /\ packed' = (rev = "cfg")
    /\ UNCHANGED <<rev, flags, bounds, rects, nfId, i, calls, packs>>
    /\ UNCHANGED splitVars

\* ---------------------------------------------------------------- reads
RectOrZero(id) == IF id \in DOMAIN rects THEN rects[id] ELSE ZR

\* Get: the signal (a panic in the cfg revision) and the rectangle.
GetResult(id) ==
    IF rev = "cfg" /\ ~packed THEN [signal |-> "NotPacked", rect |-> ZR]
    ELSE IF id \in DOMAIN rects THEN [signal |-> "nil", rect |-> rects[id]]
    ELSE IF rev = "cfg" /\ nfId = NoDefault
         THEN [signal |-> "NotFoundNoDefault", rect |-> ZR]
    ELSE [signal |-> "nil", rect |-> RectOrZero(nfId)]

\* SubImage (cfg revision only): a view of the canvas from the rectangle's
\* first pixel on; slicing Pix past its end panics.
SubImageResult(id) ==
    IF ~packed THEN [signal |-> "NotPacked", img |-> NilPic]
    ELSE LET g == GetResult(id)
             off == PixOffset(pic, g.rect.MinX, g.rect.MinY)
         IN  IF g.signal # "nil" THEN [signal |-> g.signal, img |-> NilPic]
             ELSE IF off < 0 \/ off > Len(pic.Pix)
                  THEN [signal |-> "PanicSliceBounds", img |-> NilPic]
             ELSE [signal |-> "nil",
                   img |-> [isNil |-> FALSE,
                            Rect |-> ImageRect(0, 0, Dx(g.rect), Dy(g.rect)),
                            Stride |-> pic.Stride,
                            Pix |-> SubSeq(pic.Pix, off + 1, Len(pic.Pix))]]

\* RGBA.At on a view: a point outside Rect reads as the zero colour.
At(img, x, y) ==
    IF ~In(x, y, img.Rect) THEN Blank
    ELSE img.Pix[PixOffset(img, x, y) + 1]

ImageResult ==
    IF rev = "cfg" /\ ~packed THEN [signal |-> "NotPacked", img |-> NilPic]
    ELSE [signal |-> "nil", img |-> pic]

\* Save: the outcomes the call can have (the file system may fail); the
\* encoders dereference the nil canvas of an unpacked flags-revision packer.
SaveResults(ext) ==
    IF rev = "cfg" /\ ~packed THEN {"NotPacked"}
    ELSE {"IOError"} \cup
         (IF ext \notin {".png", ".jpeg", ".jpg"} THEN {"UnsupportedSaveExt"}
          ELSE IF pic.isNil THEN {"PanicNilDeref"} ELSE {"nil"})

Get(id) ==
    /\ pc = "idle"
    /\ GetResult(id).signal \in {"nil", "NotPacked", "NotFoundNoDefault"}
    /\ UNCHANGED vars

SubImage(id) ==
    /\ pc = "idle"
    /\ rev = "cfg"
    /\ SubImageResult(id).signal # "none"
    /\ UNCHANGED vars

Image ==
    /\ pc = "idle"
    /\ ImageResult.signal \in {"nil", "NotPacked"}
    /\ UNCHANGED vars

Save(ext) ==
    /\ pc = "idle"
    /\ SaveResults(ext) # {}
    /\ UNCHANGED vars

\* ----------------------------------------------------------------- Next
ProbeIds == Ids \cup {MaxId + 1}

Reads ==
    \/ \E id \in ProbeIds : Get(id)
    \/ \E id \in ProbeIds : SubImage(id)
    \/ Image
    \/ \E ext \in Exts : Save(ext)

\* Any caller: every operation, in any order.
Next ==
    \/ \E id \in Ids, w \in Dims, h \in Dims : calls < MaxItems /\ Insert(id, w, h)
    \/ \E id \in Ids : SetDefaultId(id)
    \/ packs < MaxPacks /\ PackStart
    \/ PackGrow
    \/ PackInsert
    \/ PackCompose
    \/ Reads

Spec == Init /\ [][Next]_vars

QueuedIds == {queued[k].id : k \in 1..Len(queued)}

\* The caller of the test: pictures under pairwise distinct ids are
\* inserted, Pack is called once, the result is read back.
NextBatch ==
    \/ \E id \in Ids \ QueuedIds, w \in Dims, h \in Dims :
          calls < MaxBatch /\ packs = 0 /\ Insert(id, w, h)
    \/ packs = 0 /\ PackStart
    \/ PackGrow
    \/ PackInsert
    \/ PackCompose
    \/ Reads

SpecBatch == Init /\ [][NextBatch]_vars

\* The same caller with larger pictures, all of positive width and height,
\* inserted under the ids 0, 1, 2, ...
NextTall ==
    \/ \E sh \in TallShapes :
          calls < MaxTall /\ packs = 0 /\ Insert(calls, sh[1], sh[2])
    \/ packs = 0 /\ PackStart
    \/ PackGrow
    \/ PackInsert
    \/ PackCompose
    \/ Reads

SpecTall == Init /\ [][NextTall]_vars

\* A caller that inserts pictures under few ids, so that ids repeat, and
\* calls Pack once.
DupIds == 0..MaxDupId

NextDup ==
    \/ \E id \in DupIds, w \in Dims, h \in Dims :
          calls < MaxBatch /\ packs = 0 /\ Insert(id, w, h)
    \/ packs = 0 /\ PackStart
    \/ PackGrow
    \/ PackInsert
    \/ PackCompose
    \/ Reads

SpecDup == Init /\ [][NextDup]_vars

\* --------------------------------------------------- split, called directly
Origins == 0..MaxOrigin
Sides == 0..MaxSide

\* The rectangles split is called with.
Rectangles == {rect(x, y, w, h) : x \in Origins, y \in Origins,
                                  w \in Sides, h \in Sides}

\* A caller of split alone: any picture bounds, any free space.
InitSplit ==
    /\ InitPacker
    /\ rev = "flags" /\ flags = 0 /\ bounds = ZR
    /\ splitImg \in Rectangles
    /\ splitSpace \in Rectangles
    /\ splitRet = noSplits("none")

CallSplit ==
    /\ pc = "idle" /\ calls = 0 /\ packs = 0
    /\ splitRet.err = "none"
    /\ splitRet' = split(splitImg, splitSpace)
    /\ UNCHANGED <<rev, flags, bounds, emptySpaces, queued, rects, images, pic,
                   nfId, packed, pc, i, err, calls, packs, splitImg, splitSpace>>

NextSplit == CallSplit

SpecSplit == InitSplit /\ [][NextSplit]_vars

\* Both callers: split is called directly, or a batch is packed.
InitPackSplit == Init \/ InitSplit

\* An instance that split is called on directly packs nothing.
NextPackSplit ==
    \/ CallSplit
    \/ \E id \in Ids \ QueuedIds, w \in Dims, h \in Dims :
          NoSplitCall /\ calls < MaxBatch /\ packs = 0 /\ Insert(id, w, h)
    \/ NoSplitCall /\ packs = 0 /\ PackStart
    \/ PackGrow
    \/ PackInsert
    \/ PackCompose

SpecPackSplit == InitPackSplit /\ [][NextPackSplit]_vars

\* =============================================================== claims
\* Pack has returned success (the instance is idle with a nil error).
PackOK == pc = "idle" /\ err = "nil"

Area(r) == Dx(r) * Dy(r)

\* Two rectangles share a cell of positive area.
Overlaps(a, b) ==
    /\ Max2(a.MinX, b.MinX) < Min2(a.MaxX, b.MaxX)
    /\ Max2(a.MinY, b.MinY) < Min2(a.MaxY, b.MaxY)

Inside(r, b) ==
    /\ b.MinX <= r.MinX /\ r.MinX <= r.MaxX /\ r.MaxX <= b.MaxX
    /\ b.MinY <= r.MinY /\ r.MinY <= r.MaxY /\ r.MaxY <= b.MaxY

\* C1: after Pack returns success, the rectangles of two distinct ids of the
\* placement map share no cell, and every rectangle lies inside the canvas.
C1_NoOverlap ==
    PackOK =>
        /\ \A a \in DOMAIN rects : \A b \in DOMAIN rects :
               a # b => ~Overlaps(rects[a], rects[b])
        /\ \A a \in DOMAIN rects : Inside(rects[a], bounds)

\* Three pictures of positive area were packed, after a growth with replay.
C1_Witness ==
    /\ PackOK
    /\ Cardinality(DOMAIN rects) = 3
    /\ \A a \in DOMAIN rects : Area(rects[a]) > 0
    /\ Area(bounds) > MaxDim * MaxDim

\* C2: after Pack succeeds on pictures of pairwise distinct ids, SubImage(id)
\* has the size of the picture inserted under id and its pixels.  Stated on
\* the step that ends Pack, where the queue still holds the pictures.
RoundTrip(item, r) ==
    /\ r.signal = "nil"
    /\ r.img.Rect = Bounds(item.pic)
    /\ \A x \in 0..(item.pic.w - 1), y \in 0..(item.pic.h - 1) :
          At(r.img, x, y) = SrcAt(item.pic, x, y)

DistinctIds == Cardinality(QueuedIds) = Len(queued)

C2_RoundTrip ==
    [][(rev = "cfg" /\ pc = "loop" /\ pc' = "idle" /\ err' = "nil" /\ DistinctIds)
        => \A k \in 1..Len(queued) : \A id \in Ids :
              id = queued[k].id => RoundTrip(queued[k], SubImageResult(id)')]_vars

\* C3: with growth permitted, Pack never returns GrowthFailed.
C3_NeverGrowthFailed == GrowthAllowed => err # "GrowthFailed"

\* A completed growth step: grow returned nil, insert comes next.
GrowStep == pc = "loop" /\ pc' = "insert"

\* C4 as claimed: a growth step leaves the rectangle of every item placed
\* before it unchanged, origin and size.
C4_LayoutPreserved ==
    [][GrowStep => \A id \in DOMAIN rects : rects'[id] = rects[id]]_vars

\* C4 as amended: a growth step leaves the size of the rectangle of every
\* item placed before it unchanged; the replay may move its origin.
C4_SizePreserved ==
    [][GrowStep => \A id \in DOMAIN rects :
          /\ id \in DOMAIN rects'
          /\ Dx(rects'[id]) = Dx(rects[id])
          /\ Dy(rects'[id]) = Dy(rects[id])]_vars

\* A growth step has replayed two earlier items of positive area.
C4_Witness ==
    /\ pc = "insert"
    /\ i = 3
    /\ Cardinality(DOMAIN rects) = 2
    /\ \A id \in DOMAIN rects : Area(rects[id]) > 0

\* C5: once Pack has returned success (the canvas exists), a later call of
\* Pack returns AlreadyPacked and leaves the placement map and the canvas
\* as they were.
C5_AlreadyPacked ==
    [][(~pic.isNil /\ pc = "idle" /\ packs' = packs + 1)
        => (err' = "AlreadyPacked" /\ pc' = "idle" /\ rects' = rects /\ pic' = pic)]_vars

\* Pack has returned one of its errors.
PackFailed == pc = "idle" /\ err \in {"NoEmptySpace", "GrowthFailed", "SplitFailed"}

\* C6 as claimed, for the first Pack call of an instance (the placement map
\* is empty before it): after an error the instance is not marked packed
\* and the map holds no placement of the aborted pass.
C6_NoPartialMap ==
    (PackFailed /\ packs = 1) => (~packed /\ rects = <<>>)

\* C6 as amended: after an error the instance is not marked packed, and the
\* placement map keeps a rectangle for every item before the failing one.
C6_NotPackedPartialMap ==
    PackFailed =>
        /\ ~packed
        /\ \A k \in 1..(i - 1) : queued[k].id \in DOMAIN rects

\* Pack failed at its second or third item, with placements in the map.
C6_Witness == PackFailed /\ i >= 2 /\ rects # <<>> /\ rev = "cfg"

\* The loop of Pack is at an item that no free rectangle fits.
NoFit == pc = "loop" /\ i <= Len(queued) /\ ~Found

\* C7 as claimed: a packer constructed without AllowGrowth never grows:
\* at an item that nothing fits Pack returns NoEmptySpace and the bounds
\* stay.
C7_DefaultNeverGrows ==
    [][(flags # AllowGrowth /\ NoFit)
        => (err' = "NoEmptySpace" /\ pc' = "idle" /\ bounds' = bounds)]_vars

\* C7 as amended: that holds of the flags revision, whose bounds then never
\* change at all; the cfg revision grows by the size of the item whatever
\* its Flags and never returns NoEmptySpace.
C7_FlagsRevisionNeverGrows ==
    [][/\ (rev = "flags" /\ flags # AllowGrowth) => bounds' = bounds
       /\ (rev = "flags" /\ flags # AllowGrowth /\ NoFit)
            => (err' = "NoEmptySpace" /\ pc' = "idle")
       /\ (rev = "cfg" /\ NoFit)
            => /\ err' # "NoEmptySpace"
               /\ Dx(bounds') = Dx(bounds) + queued[i].pic.w
               /\ Dy(bounds') = Dy(bounds) + queued[i].pic.h]_vars

\* A flags-revision packer without AllowGrowth returned NoEmptySpace at its
\* second item.
C7_Witness ==
    /\ rev = "flags" /\ flags # AllowGrowth
    /\ pc = "idle" /\ err = "NoEmptySpace" /\ i = 2

\* C8: while no Pack call has returned success (there is no canvas), Get,
\* SubImage, Image and Save signal NotPacked.
C8_NotPacked ==
    pic.isNil =>
        /\ \A id \in ProbeIds : GetResult(id).signal = "NotPacked"
        /\ rev = "cfg" => \A id \in ProbeIds : SubImageResult(id).signal = "NotPacked"
        /\ ImageResult.signal = "NotPacked"
        /\ \A ext \in Exts : SaveResults(ext) = {"NotPacked"}

\* An id that was never inserted.
NeverInserted(id) == id \notin DOMAIN rects /\ id \notin QueuedIds

\* C9: after a successful Pack (cfg revision), once SetDefaultId(d) has
\* configured a placed id d, Get of a never inserted id returns the
\* rectangle of d; with nfId never configured it signals NotFoundNoDefault.
C9_DefaultFallback ==
    /\ [][\A d \in Ids :
            (rev = "cfg" /\ packed /\ d \in DOMAIN rects /\ SetDefaultId(d))
            => \A id \in ProbeIds :
                  NeverInserted(id) =>
                      GetResult(id)' = [signal |-> "nil", rect |-> rects[d]]]_vars
    /\ [](rev = "cfg" /\ packed /\ nfId = NoDefault
            => \A id \in ProbeIds :
                  NeverInserted(id) => GetResult(id).signal = "NotFoundNoDefault")

\* The step of Pack that returns success.
SuccessStep == pc = "loop" /\ pc' = "idle" /\ err' = "nil"

\* A completed insert of the loop of Pack.
InsertStep == pc \in {"loop", "insert"} /\ pc' = "loop" /\ i' = i + 1

\* C10: when Pack returns success, every picture of the queue (pairwise
\* distinct ids) has a rectangle of its own width and height in the
\* placement map; each insert records the origin of the free rectangle it
\* took the picture's space from.
C10_Complete ==
    /\ [][(SuccessStep /\ DistinctIds)
            => \A k \in 1..Len(queued) :
                  /\ queued[k].id \in DOMAIN rects'
                  /\ Dx(rects'[queued[k].id]) = queued[k].pic.w
                  /\ Dy(rects'[queued[k].id]) = queued[k].pic.h]_vars
    /\ [][InsertStep
            => LET f == find(emptySpaces, Bounds(queued[i].pic))
                   space == emptySpaces[f.index]
               IN  /\ f.found
                   /\ queued[i].id \in DOMAIN rects'
                   /\ rects'[queued[i].id].MinX = space.MinX
                   /\ rects'[queued[i].id].MinY = space.MinY]_vars

\* Pack succeeded on three pictures of positive area; one is not at the
\* origin of the canvas.
C10_Witness ==
    /\ PackOK
    /\ Cardinality(DOMAIN rects) = 3
    /\ \A a \in DOMAIN rects : Area(rects[a]) > 0
    /\ \E a \in DOMAIN rects : rects[a].MinY > 0

\* Pack has returned success at least once: only the end of a successful
\* Pack sets pack.images to nil.
Succeeded == images.isNil

\* C11: once Pack has returned success, no later step changes the packed
\* flag, the placement map or the canvas bounds (so an id inserted after
\* Pack never enters the placement map).
C11_PackedTerminal ==
    [][Succeeded => (packed' = packed /\ rects' = rects /\ bounds' = bounds)]_vars

\* ------------------------------------------------------ claims on split
\* split has been called directly and has returned.
Called == splitRet.err # "none"

\* The picture is no wider and no taller than the space.
ImgFits == Dx(splitImg) <= Dx(splitSpace) /\ Dy(splitImg) <= Dy(splitSpace)

\* Leftover width and height.
LeftW == Dx(splitSpace) - Dx(splitImg)
LeftH == Dy(splitSpace) - Dy(splitImg)

\* The leftovers split returned, in the order insert appends them.
Leftovers ==
    (IF splitRet.hasBig THEN <<splitRet.bigger>> ELSE <<>>) \o
    (IF splitRet.hasSmall THEN <<splitRet.smaller>> ELSE <<>>)

\* The picture placed at the origin of the space.
Footprint == rect(splitSpace.MinX, splitSpace.MinY, Dx(splitImg), Dy(splitImg))

RECURSIVE SumArea(_)
SumArea(rs) == IF rs = <<>> THEN 0 ELSE Area(Head(rs)) + SumArea(Tail(rs))

\* C12: for a picture that fits the space, the leftovers of split are
\* pairwise disjoint, disjoint from the picture placed at the origin of the
\* space, inside the space, and the areas add up to the area of the space.
C12_SplitExact ==
    (Called /\ ImgFits) =>
        /\ splitRet.err = "nil"
        /\ \A a \in 1..Len(Leftovers) : \A b \in 1..Len(Leftovers) :
               a # b => ~Overlaps(Leftovers[a], Leftovers[b])
        /\ \A a \in 1..Len(Leftovers) :
               /\ ~Overlaps(Leftovers[a], Footprint)
               /\ Inside(Leftovers[a], splitSpace)
        /\ Area(splitImg) + SumArea(Leftovers) = Area(splitSpace)

\* split returned two leftovers of positive area around a picture of
\* positive area, in a space away from the origin.
C12_Witness ==
    /\ Called /\ ImgFits
    /\ Len(Leftovers) = 2
    /\ Area(splitImg) > 0
    /\ \A a \in 1..Len(Leftovers) : Area(Leftovers[a]) > 0
    /\ splitSpace.MinX > 0 /\ splitSpace.MinY > 0

\* The number of strictly positive leftover dimensions.
Positive == (IF LeftW > 0 THEN 1 ELSE 0) + (IF LeftH > 0 THEN 1 ELSE 0)

\* C13: for a picture that fits, split returns as many leftovers as there
\* are strictly positive leftover dimensions; a single leftover starts at
\* the far edge of the picture on the axis that has room left and covers
\* the rest of the space.
C13_SplitCount ==
    (Called /\ ImgFits) =>
        /\ splitRet.count = Positive
        /\ Len(Leftovers) = Positive
        /\ splitRet.hasSmall = (Positive >= 1)
        /\ splitRet.hasBig = (Positive = 2)
        /\ (LeftW > 0 /\ LeftH = 0) =>
              splitRet.smaller = rect(splitSpace.MinX + Dx(splitImg), splitSpace.MinY,
                                      LeftW, Dy(splitSpace))
        /\ (LeftW = 0 /\ LeftH > 0) =>
              splitRet.smaller = rect(splitSpace.MinX, splitSpace.MinY + Dy(splitImg),
                                      Dx(splitSpace), LeftH)

\* The single-axis example, scaled: 1x1 in 1x3 leaves one 1x2 rectangle
\* directly below the picture.
C13_Witness ==
    /\ Called
    /\ Dx(splitImg) = 1 /\ Dy(splitImg) = 1
    /\ Dx(splitSpace) = 1 /\ Dy(splitSpace) = 3
    /\ splitRet.count = 1
    /\ splitRet.smaller = rect(splitSpace.MinX, splitSpace.MinY + 1, 1, 2)

\* The leftover to the right of the picture, with the given height.
RightOf(height) ==
    rect(splitSpace.MinX + Dx(splitImg), splitSpace.MinY, LeftW, height)

\* The leftover below the picture, with the given width.
Below(width) ==
    rect(splitSpace.MinX, splitSpace.MinY + Dy(splitImg), width, LeftH)

\* Both leftover dimensions are positive.
General == Called /\ LeftW > 0 /\ LeftH > 0

\* C15 as claimed: with w > h the smaller leftover is right of the picture
\* (picture's height) and the bigger one below it (full width of the
\* space); with h >= w the smaller is below (picture's width) and the
\* bigger right of it (full height).
C15_AsClaimed ==
    General =>
        IF LeftW > LeftH
        THEN /\ splitRet.smaller = RightOf(Dy(splitImg))
             /\ splitRet.bigger = Below(Dx(splitSpace))
        ELSE /\ splitRet.smaller = Below(Dx(splitImg))
             /\ splitRet.bigger = RightOf(Dy(splitSpace))

\* C15 as amended: with w > h the smaller leftover is below the picture
\* (picture's width) and the bigger one right of it (full height of the
\* space); with h >= w the smaller is right of the picture (picture's
\* height) and the bigger below it (full width).
C15_Orientation ==
    General =>
        IF LeftW > LeftH
        THEN /\ splitRet.smaller = Below(Dx(splitImg))
             /\ splitRet.bigger = RightOf(Dy(splitSpace))
        ELSE /\ splitRet.smaller = RightOf(Dy(splitImg))
             /\ splitRet.bigger = Below(Dx(splitSpace))

\* A general split with more room to the right than below.
C15_Witness == General /\ LeftW > LeftH /\ Area(splitImg) > 0

\* C16: Pack never returns SplitFailed, and split returns SplitFailed
\* exactly when the picture is wider or taller than the space.
C16_SplitFailed ==
    /\ err # "SplitFailed"
    /\ Called =>
          ((splitRet.err = "SplitFailed")
             <=> (Dx(splitImg) > Dx(splitSpace) \/ Dy(splitImg) > Dy(splitSpace)))
    /\ Called => splitRet.err \in {"nil", "SplitFailed"}

\* split failed on a picture that is wider but not taller than the space.
C16_WitnessSplit ==
    /\ Called /\ splitRet.err = "SplitFailed"
    /\ Dx(splitImg) > Dx(splitSpace) /\ Dy(splitImg) < Dy(splitSpace)

\* ----------------------------------------------------- claims on growth
\* C14: no step makes the canvas narrower or lower or moves its origin;
\* the bounds change only in a growth step of Pack, which adds the width
\* and the height of the item that nothing fitted.
C14_BoundsGrowOnly ==
    [][/\ Dx(bounds') >= Dx(bounds)
       /\ Dy(bounds') >= Dy(bounds)
       /\ bounds'.MinX = bounds.MinX
       /\ bounds'.MinY = bounds.MinY
       /\ bounds' # bounds => (NoFit /\ GrowthAllowed)
       /\ (NoFit /\ GrowthAllowed) =>
             /\ Dx(bounds') = Dx(bounds) + queued[i].pic.w
             /\ Dy(bounds') = Dy(bounds) + queued[i].pic.h]_vars

\* A growth step for the second item has made the canvas wider and higher
\* than any picture.
C14_Witness ==
    /\ pc = "insert"
    /\ i = 2
    /\ Dx(bounds) > MaxDim
    /\ Dy(bounds) > MaxDim

\* ------------------------------------------------------ claims on the pool
\* Pack has just completed an insert of its loop, or a growth.
AfterInsertOrGrow == (pc = "loop" /\ i > 1) \/ pc = "insert"

\* C17: after every completed insert and every completed growth of Pack the
\* free rectangles are pairwise non-overlapping, inside the canvas bounds,
\* and overlap no rectangle of the placement map.
C17_PoolDisjoint ==
    AfterInsertOrGrow =>
        /\ \A a \in 1..Len(emptySpaces) : \A b \in 1..Len(emptySpaces) :
               a # b => ~Overlaps(emptySpaces[a], emptySpaces[b])
        /\ \A a \in 1..Len(emptySpaces) : Inside(emptySpaces[a], bounds)
        /\ \A a \in 1..Len(emptySpaces) : \A id \in DOMAIN rects :
               ~Overlaps(emptySpaces[a], rects[id])

\* The pool is in ascending order of area.
PoolSorted ==
    \A a \in 1..Len(emptySpaces) : \A b \in 1..Len(emptySpaces) :
        a < b => area(emptySpaces[a]) <= area(emptySpaces[b])

\* The free rectangles that fit the item Pack is at.
Candidates ==
    {k \in 1..Len(emptySpaces) :
        /\ Dx(Bounds(queued[i].pic)) <= Dx(emptySpaces[k])
        /\ Dy(Bounds(queued[i].pic)) <= Dy(emptySpaces[k])}

\* C18: the pool is sorted by ascending area whenever find is called; find
\* returns the lowest index that fits, so no free rectangle that fits has a
\* smaller area than the chosen one; and the item is placed at the origin of
\* such a rectangle.
C18_SmallestFit ==
    /\ [](PoolSorted)
    /\ []((pc \in {"loop", "insert"} /\ i <= Len(queued)) =>
            LET f == find(emptySpaces, Bounds(queued[i].pic))
            IN  /\ f.found <=> Candidates # {}
                /\ f.found =>
                      /\ f.index \in Candidates
                      /\ \A k \in Candidates :
                            /\ f.index <= k
                            /\ area(emptySpaces[f.index]) <= area(emptySpaces[k]))
    /\ [][InsertStep =>
            \E c \in Candidates :
               /\ \A k \in Candidates : area(emptySpaces[c]) <= area(emptySpaces[k])
               /\ rects'[queued[i].id].MinX = emptySpaces[c].MinX
               /\ rects'[queued[i].id].MinY = emptySpaces[c].MinY]_vars

\* find is about to choose between two fitting free rectangles of
\* different positive areas, with a smaller rectangle before them that
\* does not fit.
C18_Witness ==
    /\ pc = "loop" /\ i <= Len(queued)
    /\ Area(Bounds(queued[i].pic)) > 0
    /\ \E a \in Candidates : \E b \in Candidates :
          area(emptySpaces[a]) < area(emptySpaces[b])
    /\ 1 \notin Candidates

\* ----------------------------------------------------- claims on the order
\* The queue is in non-increasing order of picture area.
QueueSorted ==
    \A a \in 1..Len(queued) : \A b \in 1..Len(queued) :
        a < b => queued[a].pic.w * queued[a].pic.h >= queued[b].pic.w * queued[b].pic.h

\* The first n pictures of q inserted into p one after the other, in the
\* order of q.
RECURSIVE InOrder(_, _, _)
InOrder(p, q, n) ==
    IF n = 0 THEN p ELSE insert(InOrder(p, q, n - 1), q[n]).p

\* C19: while Pack runs, the queue is in non-increasing order of area and
\* stays as sorted; the loop places its items one after the other in that
\* order; a completed growth leaves the pool and the placements that
\* inserting the earlier items in that same order into the enlarged canvas
\* gives.
C19_AreaOrder ==
    /\ [](pc # "idle" => QueueSorted)
    /\ [][(pc # "idle" /\ pc' # "idle") => queued' = queued]_vars
    /\ [][InsertStep =>
            /\ queued[i].id \in DOMAIN rects'
            /\ Dx(rects'[queued[i].id]) = queued[i].pic.w
            /\ Dy(rects'[queued[i].id]) = queued[i].pic.h]_vars
    /\ [][GrowStep =>
            LET start == [Self EXCEPT !.bounds = bounds',
                                      !.emptySpaces = <<bounds'>>]
                end == InOrder(start, queued, i - 1)
            IN  /\ emptySpaces' = end.emptySpaces
                /\ rects' = end.rects]_vars

\* Pack has placed three pictures of different areas that were inserted
\* smallest first, after a growth with replay.
C19_Witness ==
    /\ pc = "loop" /\ i = 4 /\ Len(queued) = 3
    /\ queued[1].pic.tag = 3 /\ queued[2].pic.tag = 2 /\ queued[3].pic.tag = 1
    /\ Area(Bounds(queued[1].pic)) > Area(Bounds(queued[2].pic))
    /\ Area(Bounds(queued[2].pic)) > Area(Bounds(queued[3].pic))
    /\ Area(Bounds(queued[3].pic)) > 0
    /\ rev = "cfg"

\* ------------------------------------------------- claims on repeated ids
\* The last of the first n items of the queue that carries id.
LastIdx(id, n) ==
    CHOOSE k \in 1..n :
        queued[k].id = id /\ \A m \in 1..n : queued[m].id = id => m <= k

\* The ids of the first n items of the queue.
IdsUpTo(n) == {queued[k].id : k \in 1..n}

\* Every id of the first n items has one rectangle, of the extents of the
\* last item that carries it.
LastWins(rs, n) ==
    /\ DOMAIN rs = IdsUpTo(n)
    /\ \A id \in IdsUpTo(n) :
          /\ Dx(rs[id]) = queued[LastIdx(id, n)].pic.w
          /\ Dy(rs[id]) = queued[LastIdx(id, n)].pic.h

RECURSIVE PlacedArea(_)
PlacedArea(n) ==
    IF n = 0 THEN 0
    ELSE queued[n].pic.w * queued[n].pic.h + PlacedArea(n - 1)

\* C20: with ids that repeat in the queue, Pack fails in no other way than
\* NoEmptySpace or GrowthFailed; after every insert, every growth and at
\* success the placement map has one rectangle per id, that of the last
\* item with the id in packing order; the space of every item placed so
\* far, earlier duplicates included, is out of the pool (the areas of the
\* pool and of the placed items add up to the canvas), and the rectangles
\* of different ids do not overlap.
C20_LastWriteWins ==
    /\ [](err \notin {"SplitFailed", "PanicNilMap", "PanicIndex"})
    /\ [](pc = "loop" => LastWins(rects, i - 1))
    /\ [](pc = "insert" => LastWins(rects, i - 1))
    /\ [][SuccessStep => (LastWins(rects', Len(queued)) /\ rects' = rects)]_vars
    /\ [][InsertStep =>
            \E c \in Candidates :
               rects'[queued[i].id] =
                  rect(emptySpaces[c].MinX, emptySpaces[c].MinY,
                       queued[i].pic.w, queued[i].pic.h)]_vars
    /\ [](pc = "loop" =>
            /\ Area(bounds) = SumArea(emptySpaces) + PlacedArea(i - 1)
            /\ \A a \in 1..Len(emptySpaces) : \A id \in DOMAIN rects :
                   ~Overlaps(emptySpaces[a], rects[id])
            /\ \A a \in DOMAIN rects : \A b \in DOMAIN rects :
                   a # b => ~Overlaps(rects[a], rects[b]))

\* Pack has placed two pictures of one id and of different positive sizes
\* and a third picture of another id, and is about to return success.
C20_Witness ==
    /\ pc = "loop" /\ i = 4 /\ Len(queued) = 3
    /\ queued[1].id = queued[2].id
    /\ queued[3].id # queued[1].id
    /\ Area(Bounds(queued[1].pic)) > Area(Bounds(queued[2].pic))
    /\ Area(Bounds(queued[2].pic)) > 0
    /\ Area(Bounds(queued[3].pic)) > 0
    /\ rev = "cfg"

=============================================================================
